---- MODULE Spec2Model ----
(***************************************************************************)
(* A model of phonetic-ts (src/index.ts): the seeded word generator        *)
(* phonetic.generate, its option resolution, the syllable builder, the     *)
(* fragment selection with its hash update, and the post-processing pass.  *)
(*                                                                         *)
(* Strings are sequences of one-character strings.  The numeric state is   *)
(* a JavaScript number that can exceed 2^31, so it is kept as two limbs    *)
(* [hi, lo] with value hi * 2^16 + lo and 0 <= lo < 2^16.                  *)
(*                                                                         *)
(* The MD5 primitive is imported from ts-md5 and is not part of the        *)
(* repository; it is represented by a family of deterministic functions    *)
(* from strings to 32 hex characters, indexed by hashKey, which contains   *)
(* the two extreme digests (all 00 and all ff) and mixing functions.       *)
(***************************************************************************)
EXTENDS Integers, Sequences, FiniteSets, TLC

VARIABLES pc, overrides, wordObj, syllables, result, hashKey,
          run, firstRun, calls, frags, emits, usedRandom, usedMod, ppTrace

vars == <<pc, overrides, wordObj, syllables, result, hashKey,
          run, firstRun, calls, frags, emits, usedRandom, usedMod, ppTrace>>

(***************************** bounds ***************************************)
MaxSyllables == 2
MaxSimplicity == 2
NumMixKeys == 2
CounterDepth == 7

Max(a, b) == IF a >= b THEN a ELSE b

MaxCalls == Max(MaxSyllables, 3) + 1

(***************************** numbers **************************************)
\* The element of a one-element set.  Only({ F(x) : x \in {e} }) is F(e)
\* with e evaluated once.
Only(S) == CHOOSE x \in S : TRUE

Base == 65536

Num(hi, lo) == [hi |-> hi, lo |-> lo]

Zero == Num(0, 0)

\* num % d for a small positive d
NumMod(n, d) == (((n.hi % d) * Base) + n.lo) % d

\* Math.floor(num / d) for a small positive d
NumDiv(n, d) ==
  Num(n.hi \div d, (((n.hi % d) * Base) + n.lo) \div d)

NumAdd(a, b) ==
  Num(a.hi + b.hi + ((a.lo + b.lo) \div Base), (a.lo + b.lo) % Base)

\* a < b
NumLess(a, b) == a.hi < b.hi \/ (a.hi = b.hi /\ a.lo < b.lo)

(***************************** characters ***********************************)
Lower == <<"a","b","c","d","e","f","g","h","i","j","k","l","m",
           "n","o","p","q","r","s","t","u","v","w","x","y","z">>
Upper == <<"A","B","C","D","E","F","G","H","I","J","K","L","M",
           "N","O","P","Q","R","S","T","U","V","W","X","Y","Z">>
Digits == <<"0","1","2","3","4","5","6","7","8","9">>
HexDigits == <<"0","1","2","3","4","5","6","7","8","9","a","b","c","d","e","f">>

\* the base64 alphabet used by Buffer.toString('base64')
Base64Chars == Upper \o Lower \o Digits \o <<"+","/">>

AllChars == Base64Chars \o <<"=","-">>

IndexOf(seq, c) == CHOOSE i \in 1..Len(seq) : seq[i] = c

InSeq(seq, c) == \E i \in 1..Len(seq) : seq[i] = c

\* String.prototype.toUpperCase on one character
ToUpperCase(c) == IF InSeq(Lower, c) THEN Upper[IndexOf(Lower, c)] ELSE c

RECURSIVE NumDigits(_)
NumDigits(n) ==
  IF n = Zero THEN <<>>
  ELSE Only({ Append(NumDigits(q), Digits[NumMod(n, 10) + 1]) :
                q \in {NumDiv(n, 10)} })

\* the string a number becomes when it is concatenated with a string
NumToString(n) == IF n = Zero THEN <<"0">> ELSE NumDigits(n)

(***************************** the digest primitive *************************)
CharSet == { AllChars[i] : i \in 1..Len(AllChars) }

CharCodes == [c \in CharSet |-> IndexOf(AllChars, c)]

CharCode(c) == CharCodes[c]

RECURSIVE MixChars(_, _, _)
MixChars(h, s, i) ==
  IF i > Len(s) THEN h
  ELSE Only({ MixChars(g, s, i + 1) :
                g \in {((h * 31) + CharCode(s[i])) % 65521} })

MixHex(key, h) ==
  [j \in 1..32 |->
     HexDigits[(((h \div j) + (h * j) + (key * j * j)) % 16) + 1]]

\* new Md5().appendStr(str).end(): 32 hex characters.  Key 1 is the digest
\* of all ff bytes, key 2 the digest of all 00 bytes, the others mix the
\* input's characters.
Md5Hex(key, str) ==
  IF key = 1 THEN [j \in 1..32 |-> "f"]
  ELSE IF key = 2 THEN [j \in 1..32 |-> "0"]
  ELSE Only({ MixHex(key, h) :
                h \in { MixChars(key, s, 1) : s \in {str} } })

HashKeys == 1..(NumMixKeys + 2)

\* Buffer.from(hex, 'hex')
HexValues == [c \in { HexDigits[i] : i \in 1..16 } |-> IndexOf(HexDigits, c) - 1]

BufferFromHex(hex) ==
  [i \in 1..(Len(hex) \div 2) |->
     (16 * HexValues[hex[(2 * i) - 1]]) + HexValues[hex[2 * i]]]

\* buf.readUInt32LE(off), off counted from 0
readUInt32LE(buf, off) ==
  Num(buf[off + 3] + (256 * buf[off + 4]), buf[off + 1] + (256 * buf[off + 2]))

Salt == <<"-","P","h","o","n","e","t","i","c">>

\* for (var i = 0; i <= 12; i += 4) numeric += buf.readUInt32LE(i)
RECURSIVE SumWords(_, _, _)
SumWords(buf, i, numeric) ==
  IF i <= 12
  THEN Only({ SumWords(buf, i + 4, n) :
                n \in {NumAdd(numeric, readUInt32LE(buf, i))} })
  ELSE numeric

\* the digest of data + '-Phonetic' as a buffer of 16 bytes
DigestBuffer(data) ==
  Only({ BufferFromHex(hex) : hex \in {Md5Hex(hashKey, data \o Salt)} })

getNumericHash_extraWord(data) ==
  Only({ SumWords(buf, 0, readUInt32LE(buf, 0)) : buf \in {DigestBuffer(data)} })

getNumericHash(data) ==
  Only({ SumWords(buf, 0, Zero) : buf \in {DigestBuffer(data)} })

(***************************** phonetic tables ******************************)
PHONETIC_PRE == <<
  <<"b">>, <<"c">>, <<"d">>, <<"f">>, <<"g">>, <<"h">>, <<"j">>, <<"k">>,
  <<"l">>, <<"m">>, <<"n">>, <<"p">>, <<"q","u">>, <<"r">>, <<"s">>,
  <<"t">>, <<"b","l">>, <<"c","h">>, <<"c","l">>, <<"c","r">>, <<"d","r">>,
  <<"f","l">>, <<"f","r">>, <<"g","l">>, <<"g","r">>, <<"k","l">>,
  <<"k","r">>, <<"p","h">>, <<"p","r">>, <<"p","l">>, <<"s","c">>,
  <<"s","h">>, <<"s","l">>, <<"s","n">>, <<"s","r">>, <<"s","t">>,
  <<"s","t","r">>, <<"s","w">>, <<"t","h">>, <<"t","r">>, <<"b","r">>,
  <<"v">>, <<"w">>, <<"y">>, <<"z">> >>

PHONETIC_MID == <<
  <<"a">>, <<"e">>, <<"i">>, <<"o">>, <<"u">>, <<"e","e">>, <<"i","e">>,
  <<"o","o">>, <<"o","u">>, <<"u","e">> >>

PHONETIC_POST == <<
  <<"b">>, <<"d">>, <<"f">>, <<"g">>, <<"k">>, <<"l">>, <<"m">>, <<"n">>,
  <<"p">>, <<"r">>, <<"s">>, <<"t">>, <<"y">>, <<"c","h">>, <<"c","k">>,
  <<"l","n">>, <<"n","k">>, <<"n","g">>, <<"r","n">>, <<"s","h">>,
  <<"s","k">>, <<"s","t">>, <<"t","h">>, <<"x">>, <<"z">> >>

PHONETIC_PRE_SIMPLE_LENGTH == 16
PHONETIC_MID_SIMPLE_LENGTH == 5
PHONETIC_POST_SIMPLE_LENGTH == 13

(***************************** derivative ***********************************)
RECURSIVE DerivLoop(_, _)
DerivLoop(num, derivative) ==
  IF num # Zero
  THEN Only({ DerivLoop(n, d) : n \in {NumDiv(num, 7)},
                                d \in {derivative + NumMod(num, 7)} })
  ELSE derivative

getDerivative(num) == DerivLoop(num, 1)

(***************************** options **************************************)
\* An optional field of the overrides object: <<>> when the property is
\* absent, <<v>> when it is present with value v.
None == <<>>
Some(v) == <<v>>
Has(x) == x # None
Val(x) == x[1]

B64(n) == Base64Chars[n + 1]

\* Buffer.toString('base64')
RECURSIVE ToBase64(_)
ToBase64(b) ==
  IF Len(b) = 0 THEN <<>>
  ELSE IF Len(b) = 1
    THEN <<B64(b[1] \div 4), B64((b[1] % 4) * 16), "=", "=">>
  ELSE IF Len(b) = 2
    THEN <<B64(b[1] \div 4), B64(((b[1] % 4) * 16) + (b[2] \div 16)),
           B64((b[2] % 16) * 4), "=">>
  ELSE <<B64(b[1] \div 4), B64(((b[1] % 4) * 16) + (b[2] \div 16)),
         B64(((b[2] % 16) * 4) + (b[3] \div 64)), B64(b[3] % 64)>>
         \o ToBase64(SubSeq(b, 4, Len(b)))

\* The buffers randomBytes(16) can return: what Math.random yields is not
\* determined by the program; a few of the 2^128 outcomes stand for all.
RandomBuffers ==
  { [i \in 1..16 |-> 255], [i \in 1..16 |-> (i * 37) % 256] }

\* getOptions(overrides); rnd is the buffer randomBytes(16) returns if it
\* is called.  x || d takes d when x is absent, 0 or "".
getOptions(ov, rnd) ==
  [ syllables |->
      IF Has(ov.syllables) /\ Val(ov.syllables) # 0
      THEN Val(ov.syllables) ELSE 3,
    seed |->
      IF Has(ov.seed) /\ Val(ov.seed) # <<>>
      THEN Val(ov.seed) ELSE ToBase64(rnd),
    phoneticSimplicity |->
      IF Has(ov.phoneticSimplicity) /\ Val(ov.phoneticSimplicity) # 0
      THEN Max(Val(ov.phoneticSimplicity), 1) ELSE 5,
    compoundSimplicity |->
      IF Has(ov.compoundSimplicity) /\ Val(ov.compoundSimplicity) # 0
      THEN Max(Val(ov.compoundSimplicity), 1) ELSE 5,
    capFirst |->
      IF Has(ov.capFirst) THEN Val(ov.capFirst) ELSE TRUE ]

\* whether getOptions evaluates randomBytes(16)
ReadsRandom(ov) == ~(Has(ov.seed) /\ Val(ov.seed) # <<>>)

(***************************** fragment selection ***************************)
Undefined == <<"u","n","d","e","f","i","n","e","d">>

\* phoneticSet[i], i counted from 0; an index past the end reads undefined
ArrayGet(phoneticSet, i) ==
  IF i < Len(phoneticSet) THEN phoneticSet[i + 1] ELSE Undefined

getNextPhonetic_hashAfterAppend(phoneticSet, simpleCap, w, forceSimple) ==
  LET deriv == getDerivative(w.numeric)
      modulus == IF w.opts.phoneticSimplicity = 0 THEN 5
                 ELSE w.opts.phoneticSimplicity
      simple == NumMod(NumAdd(w.numeric, Num(0, deriv)), modulus) > 0
      cap == IF simple \/ forceSimple THEN simpleCap ELSE Len(phoneticSet)
      index == NumMod(w.numeric, cap)
      phonetic == ArrayGet(phoneticSet, index)
      hashInput == NumToString(w.numeric) \o (w.word \o phonetic)
  IN  [ phonetic |-> phonetic, index |-> index, modulus |-> modulus,
        hashInput |-> hashInput, numeric |-> getNumericHash(hashInput) ]

getNextPhonetic_capAlwaysFull(phoneticSet, simpleCap, w, forceSimple) ==
  LET deriv == getDerivative(w.numeric)
      modulus == IF w.opts.phoneticSimplicity = 0 THEN 5
                 ELSE w.opts.phoneticSimplicity
      cap == Len(PHONETIC_PRE)
      index == NumMod(w.numeric, cap)
      phonetic == ArrayGet(phoneticSet, index)
      hashInput == NumToString(w.numeric) \o w.word
  IN  [ phonetic |-> phonetic, index |-> index, modulus |-> modulus,
        hashInput |-> hashInput, numeric |-> getNumericHash(hashInput) ]

\* getNextPhonetic: the chosen phonetic and the new wordObj.numeric.  The
\* caller appends the phonetic after the call returns, so wordObj.word is
\* here still the word without it.
getNextPhonetic(phoneticSet, simpleCap, w, forceSimple) ==
  LET deriv == getDerivative(w.numeric)
      modulus == IF w.opts.phoneticSimplicity = 0 THEN 5
                 ELSE w.opts.phoneticSimplicity
      simple == NumMod(NumAdd(w.numeric, Num(0, deriv)), modulus) > 0
      cap == IF simple \/ forceSimple THEN simpleCap ELSE Len(phoneticSet)
      index == NumMod(w.numeric, cap)
      phonetic == ArrayGet(phoneticSet, index)
      hashInput == NumToString(w.numeric) \o w.word
  IN  [ phonetic |-> phonetic, index |-> index, modulus |-> modulus,
        hashInput |-> hashInput, numeric |-> getNumericHash(hashInput) ]

(***************************** syllable builder *****************************)
\* wordObj.word += phonetic after getNextPhonetic has returned r, with a
\* record of the emission appended to log
Emitted(st, table, r) ==
  [ w |-> [st.w EXCEPT !.word = st.w.word \o r.phonetic,
                       !.numeric = r.numeric],
    log |-> Append(st.log,
              [ table |-> table, index |-> r.index,
                phonetic |-> r.phonetic, modulus |-> r.modulus,
                numBefore |-> st.w.numeric, wordBefore |-> st.w.word,
                hashInput |-> r.hashInput, numAfter |-> r.numeric ]) ]

\* wordObj.word += getNextPhonetic(phoneticSet, simpleCap, wordObj, forceSimple)
Emit(st, table, phoneticSet, simpleCap, forceSimple) ==
  Only({ Emitted(st, table, r) :
           r \in {getNextPhonetic(phoneticSet, simpleCap, st.w, forceSimple)} })

\* the three parts of addSyllable, each on the state the part before left
PrePart(st, first, preOnFirst, compound) ==
  IF (first /\ preOnFirst) \/ st.w.lastSkippedPost \/ compound
  THEN Only({ [e EXCEPT !.w.lastSkippedPre = FALSE] :
                e \in {Emit(st, "PRE", PHONETIC_PRE,
                            PHONETIC_PRE_SIMPLE_LENGTH, FALSE)} })
  ELSE [st EXCEPT !.w.lastSkippedPre = TRUE]

MidPart(st, first) ==
  Emit(st, "MID", PHONETIC_MID, PHONETIC_MID_SIMPLE_LENGTH,
       first /\ st.w.lastSkippedPre)

PostPart_onlyIfCompound(st, compound) ==
  IF compound
  THEN Only({ [e EXCEPT !.w.lastSkippedPost = FALSE] :
                e \in {Emit(st, "POST", PHONETIC_POST,
                            PHONETIC_POST_SIMPLE_LENGTH, FALSE)} })
  ELSE [st EXCEPT !.w.lastSkippedPost = TRUE]

PostPart(st, compound) ==
  IF st.w.lastSkippedPre \/ compound
  THEN Only({ [e EXCEPT !.w.lastSkippedPost = FALSE] :
                e \in {Emit(st, "POST", PHONETIC_POST,
                            PHONETIC_POST_SIMPLE_LENGTH, FALSE)} })
  ELSE [st EXCEPT !.w.lastSkippedPost = TRUE]

\* addSyllable(wordObj): the new wordObj, the emissions made and the modulus
\* used for compound.  opts.compoundSimplicity ?? 5 is the option itself:
\* getOptions always sets it.
addSyllable(w) ==
  LET deriv == getDerivative(w.numeric)
      compound == (deriv % w.opts.compoundSimplicity) = 0
      first == w.word = <<>>
      preOnFirst == (deriv % 6) > 0
  IN  Only({ [ w |-> s3.w, log |-> s3.log,
               compoundModulus |-> w.opts.compoundSimplicity ] :
             s3 \in { PostPart(s2, compound) :
             s2 \in { MidPart(s1, first) :
             s1 \in { PrePart([w |-> w, log |-> <<>>],
                              first, preOnFirst, compound) } } } })

(***************************** post-processing ******************************)
REPLACEMENTS_reordered ==
  << "quu", "qu([aeiou]){2}", "eye", "[iu]y", "(.)ye$", "(^|e)cie(?!$)",
     "([vz])$", "[iu]w" >>

\* The keys of REPLACEMENTS in the order for..in visits them: insertion
\* order, since no key is an array index.
REPLACEMENTS ==
  << "quu", "qu([aeiou]){2}", "[iu]y", "eye", "(.)ye$", "(^|e)cie(?!$)",
     "([vz])$", "[iu]w" >>

Vowel(c) == c \in {"a", "e", "i", "o", "u"}

\* s has the characters of lit at positions i .. i + Len(lit) - 1
LitAt(s, i, lit) ==
  /\ i >= 1
  /\ (i + Len(lit)) - 1 <= Len(s)
  /\ \A j \in 1..Len(lit) : s[(i + j) - 1] = lit[j]

\* The length of the match of the pattern at position i of s, or -1.
MatchLen(key, s, i) ==
  CASE key = "quu" -> IF LitAt(s, i, <<"q","u","u">>) THEN 3 ELSE -1
    [] key = "qu([aeiou]){2}" ->
         IF /\ LitAt(s, i, <<"q","u">>)
            /\ i + 3 <= Len(s)
            /\ Vowel(s[i + 2])
            /\ Vowel(s[i + 3])
         THEN 4 ELSE -1
    [] key = "[iu]y" ->
         IF i + 1 <= Len(s) /\ s[i] \in {"i", "u"} /\ s[i + 1] = "y"
         THEN 2 ELSE -1
    [] key = "eye" -> IF LitAt(s, i, <<"e","y","e">>) THEN 3 ELSE -1
    [] key = "(.)ye$" ->
         IF LitAt(s, i + 1, <<"y","e">>) /\ i + 2 = Len(s) THEN 3 ELSE -1
    [] key = "(^|e)cie(?!$)" ->
         IF i = 1 /\ LitAt(s, 1, <<"c","i","e">>) /\ 3 < Len(s) THEN 3
         ELSE IF LitAt(s, i, <<"e","c","i","e">>) /\ i + 3 < Len(s) THEN 4
         ELSE -1
    [] key = "([vz])$" ->
         IF i = Len(s) /\ s[i] \in {"v", "z"} THEN 1 ELSE -1
    [] key = "[iu]w" ->
         IF i + 1 <= Len(s) /\ s[i] \in {"i", "u"} /\ s[i + 1] = "w"
         THEN 2 ELSE -1

\* The text that replaces the match of length len at position i of s.
Replacement(key, s, i, len) ==
  CASE key = "quu" -> <<"q","u","e">>
    [] key = "qu([aeiou]){2}" -> <<"q","u", s[i + 3]>>
    [] key = "[iu]y" -> <<"e","y">>
    [] key = "eye" -> <<"y","e">>
    [] key = "(.)ye$" -> <<s[i], "y">>
    [] key = "(^|e)cie(?!$)" ->
         (IF len = 4 THEN <<"e">> ELSE <<>>) \o <<"c","e","i">>
    [] key = "([vz])$" -> <<s[i], "e">>
    [] key = "[iu]w" -> <<"o","w">>

Matches(key, s) == { i \in 1..Len(s) : MatchLen(key, s, i) >= 0 }

SetMin(S) == CHOOSE x \in S : \A y \in S : x <= y

\* word.replace(new RegExp(key), REPLACEMENTS[key]): the leftmost match only
RegexReplace(s, key) ==
  IF Matches(key, s) = {} THEN s
  ELSE LET i == SetMin(Matches(key, s))
           len == MatchLen(key, s, i)
       IN  SubSeq(s, 1, i - 1) \o Replacement(key, s, i, len)
             \o SubSeq(s, i + len, Len(s))

\* str.charAt(0).toUpperCase() + str.slice(1)
capFirst(str) ==
  IF str = <<>> THEN <<>> ELSE <<ToUpperCase(str[1])>> \o Tail(str)

\* wordObj.word after each pass of the for..in loop of postProcess, the
\* word before the loop first
RECURSIVE ReplacementPasses(_, _)
ReplacementPasses(word, keys) ==
  IF keys = <<>> THEN <<word>>
  ELSE Only({ <<word>> \o ReplacementPasses(next, Tail(keys)) :
                next \in {RegexReplace(word, Head(keys))} })

postProcess(w) ==
  Only({ IF w.opts.capFirst THEN capFirst(word) ELSE word :
           word \in { passes[Len(passes)] :
                        passes \in {ReplacementPasses(w.word, REPLACEMENTS)} } })

(***************************** generate *************************************)
NoOptions ==
  [ syllables |-> 0, seed |-> <<>>, phoneticSimplicity |-> 0,
    compoundSimplicity |-> 0, capFirst |-> FALSE ]

NoWordObj ==
  [ numeric |-> Zero, lastSkippedPre |-> FALSE, lastSkippedPost |-> FALSE,
    word |-> <<>>, opts |-> NoOptions ]

NoRun == [ overrides |-> <<>>, result |-> <<>>, numeric |-> Zero,
           frags |-> <<>>, seed |-> <<>> ]

NoOverrides ==
  [ syllables |-> None, seed |-> None, phoneticSimplicity |-> None,
    compoundSimplicity |-> None, capFirst |-> None ]

NoMod == [ phonetic |-> 0, compound |-> 0 ]

Seeds == { <<>>, <<"a">> }

Overrides ==
  [ syllables : {None} \cup { Some(n) : n \in (-1)..MaxSyllables },
    seed : {None} \cup { Some(s) : s \in Seeds },
    phoneticSimplicity : {None} \cup { Some(n) : n \in (-1)..MaxSimplicity },
    compoundSimplicity : {None} \cup { Some(n) : n \in (-1)..MaxSimplicity },
    capFirst : {None} \cup { Some(b) : b \in BOOLEAN } ]

\* syllables-- : a number stops changing once 1 is below its precision,
\* here at -CounterDepth
DecrementCounter(n) == IF n - 1 < -CounterDepth THEN -CounterDepth ELSE n - 1

Init ==
  /\ pc = "idle"
  /\ overrides \in Overrides
  /\ hashKey \in HashKeys
  /\ wordObj = NoWordObj
  /\ syllables = 0
  /\ result = <<>>
  /\ run = 1
  /\ firstRun = NoRun
  /\ calls = 0
  /\ frags = <<>>
  /\ emits = <<>>
  /\ usedRandom = FALSE
  /\ usedMod = NoMod
  /\ ppTrace = <<>>

\* generate(options) up to the loop: resolve the options, seed the state
Generate ==
  /\ pc = "idle"
  /\ \E rnd \in RandomBuffers :
       \E options \in {getOptions(overrides, rnd)} :
           /\ syllables' = IF options.syllables = 0 THEN 3 ELSE options.syllables
           /\ wordObj' = [ numeric |-> getNumericHash(options.seed),
                           lastSkippedPre |-> FALSE,
                           lastSkippedPost |-> FALSE,
                           word |-> <<>>,
                           opts |-> options ]
  /\ usedRandom' = ReadsRandom(overrides)
  /\ pc' = "loop"
  /\ calls' = 0
  /\ frags' = <<>>
  /\ emits' = <<>>
  /\ usedMod' = NoMod
  /\ result' = <<>>
  /\ ppTrace' = <<>>
  /\ UNCHANGED <<overrides, hashKey, run, firstRun>>

\* the test of while (syllables--) when it finds the counter not 0
LoopTest ==
  /\ pc = "loop"
  /\ syllables # 0
  /\ syllables' = DecrementCounter(syllables)
  /\ pc' = "body"
  /\ UNCHANGED <<overrides, wordObj, result, hashKey, run, firstRun, calls,
                 frags, emits, usedRandom, usedMod, ppTrace>>

\* the body of the loop: addSyllable(wordObj)
LoopStep ==
  /\ pc = "body"
  /\ calls < MaxCalls
  /\ \E r \in {addSyllable(wordObj)} :
         /\ wordObj' = r.w
         /\ emits' = r.log
         /\ frags' = Append(frags,
                        [i \in 1..Len(r.log) |->
                           [table |-> r.log[i].table, index |-> r.log[i].index]])
         /\ usedMod' = [ phonetic |-> r.log[1].modulus,
                         compound |-> r.compoundModulus ]
  /\ calls' = calls + 1
  /\ pc' = "loop"
  /\ UNCHANGED <<overrides, syllables, result, hashKey, run, firstRun,
                 usedRandom, ppTrace>>

\* the body of the loop past the calls that are followed in detail: the
\* loop goes on, the word is no longer recorded
LoopBeyond ==
  /\ pc = "body"
  /\ calls = MaxCalls
  /\ pc' = "loop"
  /\ UNCHANGED <<overrides, wordObj, syllables, result, hashKey, run,
                 firstRun, calls, frags, emits, usedRandom, usedMod, ppTrace>>

\* the loop's exit and return postProcess(wordObj)
Return ==
  /\ pc = "loop"
  /\ syllables = 0
  /\ syllables' = DecrementCounter(syllables)
  /\ ppTrace' = ReplacementPasses(wordObj.word, REPLACEMENTS)
  /\ result' = postProcess(wordObj)
  /\ pc' = "done"
  /\ UNCHANGED <<overrides, wordObj, hashKey, run, firstRun, calls, frags,
                 emits, usedRandom, usedMod>>

\* a second call of generate, with the same options or with capFirst
\* changed from true to false
SecondCall ==
  /\ pc = "done"
  /\ run = 1
  /\ firstRun' = [ overrides |-> overrides, result |-> result,
                   numeric |-> wordObj.numeric, frags |-> frags,
                   seed |-> wordObj.opts.seed ]
  /\ \/ overrides' = overrides
     \/ /\ overrides.capFirst = Some(TRUE)
        /\ overrides' = [overrides EXCEPT !.capFirst = Some(FALSE)]
  /\ run' = 2
  /\ pc' = "idle"
  /\ UNCHANGED <<wordObj, syllables, result, hashKey, calls, frags, emits,
                 usedRandom, usedMod, ppTrace>>

Next == Generate \/ LoopTest \/ LoopStep \/ LoopBeyond \/ Return \/ SecondCall

Spec == Init /\ [][Next]_vars

\* The calls the termination of generate is followed on: every syllables
\* and seed, the other options left out.
InitCalls ==
  /\ Init
  /\ overrides.phoneticSimplicity = None
  /\ overrides.compoundSimplicity = None
  /\ overrides.capFirst = None

\* the loop is sequential code: it takes its next step whenever it has one
FairSpec == InitCalls /\ [][Next]_vars /\ WF_vars(Next)

(***************************** postProcess on its own ***********************)
MaxRawSyllables == 2

\* the fragments the raw words are put together from; -1 is no fragment
RawPre == { -1, 1, 12, 42, 43 }
RawMid == { 1, 4, 6 }
RawPost == { -1, 12, 24 }

\* PRE, MID and POST indices (from 0) of one syllable addSyllable can build
RawSyllables ==
  { s \in RawPre \X RawMid \X RawPost : s[1] # -1 \/ s[3] # -1 }

RawText(s) ==
  (IF s[1] = -1 THEN <<>> ELSE PHONETIC_PRE[s[1] + 1])
    \o PHONETIC_MID[s[2] + 1]
    \o (IF s[3] = -1 THEN <<>> ELSE PHONETIC_POST[s[3] + 1])

\* sequences of syllables as addSyllable chains them: a syllable without
\* POST is followed by one with PRE, a first syllable without PRE has a
\* simple MID
RECURSIVE RawRuns(_)
RawRuns(n) ==
  IF n = 1
  THEN { <<s>> : s \in { t \in RawSyllables :
                           t[1] = -1 => t[2] < PHONETIC_MID_SIMPLE_LENGTH } }
  ELSE LET shorter == RawRuns(n - 1)
       IN  shorter \cup
             { Append(r, s) : r \in { q \in shorter : Len(q) = n - 1 },
                              s \in RawSyllables }

RECURSIVE RawWord(_)
RawWord(r) == IF r = <<>> THEN <<>> ELSE RawText(Head(r)) \o RawWord(Tail(r))

RawWords ==
  { RawWord(r) : r \in { q \in RawRuns(MaxRawSyllables) :
       \A i \in 1..(Len(q) - 1) : q[i][3] = -1 => q[i + 1][1] # -1 } }

InitPP ==
  /\ pc = "raw"
  /\ \E word \in RawWords, cap \in BOOLEAN :
       wordObj = [NoWordObj EXCEPT !.word = word, !.opts.capFirst = cap]
  /\ overrides = NoOverrides
  /\ hashKey = 1
  /\ syllables = 0
  /\ result = <<>>
  /\ run = 1
  /\ firstRun = NoRun
  /\ calls = 0
  /\ frags = <<>>
  /\ emits = <<>>
  /\ usedRandom = FALSE
  /\ usedMod = NoMod
  /\ ppTrace = <<>>

ApplyPostProcess ==
  /\ pc = "raw"
  /\ ppTrace' = ReplacementPasses(wordObj.word, REPLACEMENTS)
  /\ result' = postProcess(wordObj)
  /\ pc' = "processed"
  /\ UNCHANGED <<overrides, wordObj, syllables, hashKey, run, firstRun, calls,
                 frags, emits, usedRandom, usedMod>>

NextPP == ApplyPostProcess

SpecPP == InitPP /\ [][NextPP]_vars

(***************************** properties ***********************************)
Table(name) ==
  CASE name = "PRE" -> PHONETIC_PRE
    [] name = "MID" -> PHONETIC_MID
    [] name = "POST" -> PHONETIC_POST

Tables(syl) == [i \in 1..Len(syl) |-> syl[i].table]

RECURSIVE Flatten(_)
Flatten(ss) == IF ss = <<>> THEN <<>> ELSE Head(ss) \o Flatten(Tail(ss))

SameOptions == overrides = firstRun.overrides

\* C1: with an explicit seed (the empty string included) a second call of
\* generate with identical options returns the word the first call returned,
\* and no call with an explicit seed reads the random-byte source.
C1_Determinism ==
  Has(overrides.seed) =>
    /\ ~usedRandom
    /\ (run = 2 /\ pc = "done" /\ SameOptions) => result = firstRun.result

ExpectedCalls ==
  IF Has(overrides.syllables) THEN Max(Val(overrides.syllables), 0) ELSE 3

\* C2: generate calls addSyllable exactly options.syllables times for a
\* positive count and not at all for 0 or a negative count, and
\* generate({syllables: 0, capFirst: false}) returns the empty string.
C2_SyllableCount ==
  /\ calls <= ExpectedCalls
  /\ pc = "done" =>
       /\ calls = ExpectedCalls
       /\ (overrides.syllables = Some(0) /\ overrides.capFirst = Some(FALSE))
            => result = <<>>

\* C3: every call of generate terminates, whatever the integer syllables is.
C3_Terminates == (pc = "idle") ~> (pc = "done")

ClampedOrDefault(x) == IF Has(x) THEN Max(Val(x), 1) ELSE 5

\* C4: the modulus addSyllable and getNextPhonetic use is max(v, 1) for
\* every supplied value v of the option, 0 and negative values included,
\* and 5 only when the option is absent.
C4_Clamping ==
  calls > 0 =>
    /\ usedMod.phonetic = ClampedOrDefault(overrides.phoneticSimplicity)
    /\ usedMod.compound = ClampedOrDefault(overrides.compoundSimplicity)

SyllableShapes ==
  { <<"MID">>, <<"PRE", "MID">>, <<"MID", "POST">>, <<"PRE", "MID", "POST">> }

FragmentText(f) == Table(f.table)[f.index + 1]

\* C5: the raw word is the concatenation of the table entries selected so
\* far; every syllable is at most one PRE entry, exactly one MID entry and
\* at most one POST entry, in this order, and every selected index lies
\* within its table.
C5_AlphabetAndShape ==
  pc \in {"loop", "body", "done"} =>
    /\ \A i \in 1..Len(frags) :
         /\ Tables(frags[i]) \in SyllableShapes
         /\ \A j \in 1..Len(frags[i]) :
              /\ frags[i][j].index >= 0
              /\ frags[i][j].index < Len(Table(frags[i][j].table))
    /\ wordObj.word =
         Flatten([i \in 1..Len(frags) |->
                    Flatten([j \in 1..Len(frags[i]) |-> FragmentText(frags[i][j])])])

C5_Witness ==
  /\ pc = "done"
  /\ \E i, j \in 1..Len(frags) :
       /\ Tables(frags[i]) = <<"PRE", "MID", "POST">>
       /\ Tables(frags[j]) = <<"MID", "POST">>
  /\ \E i \in 1..Len(frags) : \E k \in 1..Len(frags[i]) :
       frags[i][k].index >= PHONETIC_PRE_SIMPLE_LENGTH

CapFlipped ==
  /\ firstRun.overrides # <<>>
  /\ firstRun.overrides.capFirst = Some(TRUE)
  /\ overrides = [firstRun.overrides EXCEPT !.capFirst = Some(FALSE)]

\* a is b with its first character in upper case and the rest unchanged
FirstUppercased(a, b) ==
  /\ Len(a) = Len(b)
  /\ \A i \in 2..Len(b) : a[i] = b[i]
  /\ Len(b) > 0 => a[1] = Upper[IndexOf(Lower, b[1])]

\* C6: for every seed and every setting of the other options, the word
\* generate returns with capFirst true is the word it returns with capFirst
\* false with the first character in upper case and the rest unchanged, and
\* the two runs end with the same numeric state and the same fragments.
C6_CapFirst ==
  (run = 2 /\ pc = "done" /\ CapFlipped /\ Has(overrides.seed)) =>
    /\ FirstUppercased(firstRun.result, result)
    /\ wordObj.numeric = firstRun.numeric
    /\ frags = firstRun.frags

\* C6 for two calls that run from the same resolved seed: the relation
\* holds, so capFirst itself changes nothing but the first character.
C6_CapFirstSameSeed ==
  (run = 2 /\ pc = "done" /\ CapFlipped /\ wordObj.opts.seed = firstRun.seed) =>
    /\ FirstUppercased(firstRun.result, result)
    /\ wordObj.numeric = firstRun.numeric
    /\ frags = firstRun.frags

TwoTo32 == Num(Base, 0)

MaxWordSum == Num((4 * Base) - 1, Base - 4)

\* C7 as stated: after the seeding and after every update, numeric is a
\* non-negative integer below 2^32.
C7_Fits32Bits ==
  pc \in {"loop", "body", "done"} =>
    /\ wordObj.numeric.hi >= 0
    /\ wordObj.numeric.lo \in 0..(Base - 1)
    /\ NumLess(wordObj.numeric, TwoTo32)

\* C7 amended: after the seeding and after every update, numeric is a
\* non-negative integer no greater than 4 * (2^32 - 1), the sum of four
\* unsigned 32-bit words without truncation.
C7_FitsSumOfFourWords ==
  pc \in {"loop", "body", "done"} =>
    /\ wordObj.numeric.hi >= 0
    /\ wordObj.numeric.lo \in 0..(Base - 1)
    /\ ~NumLess(MaxWordSum, wordObj.numeric)
    /\ \A i \in 1..Len(emits) : ~NumLess(MaxWordSum, emits[i].numAfter)

C7_Witness ==
  /\ pc = "loop"
  /\ calls > 0
  /\ ~NumLess(wordObj.numeric, TwoTo32)
  /\ \E i \in 1..Len(emits) : NumLess(emits[i].numAfter, TwoTo32)

\* C8 as stated: at every fragment emission the string hashed to advance
\* numeric is the numeric value before the update followed by the word with
\* the selected fragment already appended.
C8_HashesWordAfterAppend ==
  \A i \in 1..Len(emits) :
    /\ emits[i].hashInput =
         NumToString(emits[i].numBefore) \o (emits[i].wordBefore \o emits[i].phonetic)
    /\ emits[i].numAfter = getNumericHash(emits[i].hashInput)

\* C8 amended: at every fragment emission the string hashed to advance
\* numeric is the numeric value before the update followed by the word as
\* it stands before the selected fragment is appended.
C8_HashesWordBeforeAppend ==
  \A i \in 1..Len(emits) :
    /\ emits[i].hashInput =
         NumToString(emits[i].numBefore) \o emits[i].wordBefore
    /\ emits[i].numAfter = getNumericHash(emits[i].hashInput)
    /\ i > 1 => /\ emits[i].numBefore = emits[i - 1].numAfter
                /\ emits[i].wordBefore =
                     emits[i - 1].wordBefore \o emits[i - 1].phonetic

C8_Witness ==
  /\ calls >= 2
  /\ Len(emits) = 3
  /\ emits[1].wordBefore # <<>>
  /\ emits[1].numBefore # emits[2].numBefore

HasTable(syl, name) == \E j \in 1..Len(syl) : syl[j].table = name

AllTables == Flatten([i \in 1..Len(frags) |-> Tables(frags[i])])

\* C9: a syllable without a POST fragment is followed by a syllable with a
\* PRE fragment, lastSkippedPost says whether the last syllable lacks its
\* POST fragment, no two MID fragments are adjacent in the raw word, and
\* every syllable has a PRE or a POST fragment.
C9_FlagChaining ==
  /\ \A i \in 1..Len(frags) :
       /\ HasTable(frags[i], "PRE") \/ HasTable(frags[i], "POST")
       /\ (i < Len(frags) /\ ~HasTable(frags[i], "POST"))
            => HasTable(frags[i + 1], "PRE")
  /\ Len(frags) > 0 =>
       /\ wordObj.lastSkippedPost = ~HasTable(frags[Len(frags)], "POST")
       /\ wordObj.lastSkippedPre = ~HasTable(frags[Len(frags)], "PRE")
  /\ \A k \in 1..(Len(AllTables) - 1) :
       ~(AllTables[k] = "MID" /\ AllTables[k + 1] = "MID")

C9_Witness ==
  /\ Len(frags) >= 3
  /\ \E i \in 1..(Len(frags) - 1) :
       /\ ~HasTable(frags[i], "POST")
       /\ Tables(frags[i + 1]) = <<"PRE", "MID">>
  /\ \E i \in 1..Len(frags) : ~HasTable(frags[i], "PRE")

\* the patterns in the order of the table of replacements
TableOrder ==
  << "quu", "qu([aeiou]){2}", "[iu]y", "eye", "(.)ye$", "(^|e)cie(?!$)",
     "([vz])$", "[iu]w" >>

\* after is before with only the leftmost match of the pattern replaced
FirstMatchReplaced(key, before, after) ==
  IF Matches(key, before) = {} THEN after = before
  ELSE LET i == SetMin(Matches(key, before))
           len == MatchLen(key, before, i)
           rep == Replacement(key, before, i, len)
       IN  /\ Len(after) = (Len(before) - len) + Len(rep)
           /\ \A j \in 1..(i - 1) : after[j] = before[j]
           /\ \A j \in 1..Len(rep) : after[(i + j) - 1] = rep[j]
           /\ \A j \in (i + len)..Len(before) :
                after[(j - len) + Len(rep)] = before[j]

\* C10: postProcess applies the eight replacements in the order of the
\* table, each once and to its leftmost match in the word the preceding
\* replacements left, and capitalizes after all eight.
C10_ReplacementOrder ==
  pc = "processed" =>
    /\ Len(ppTrace) = Len(TableOrder) + 1
    /\ ppTrace[1] = wordObj.word
    /\ \A k \in 1..Len(TableOrder) :
         FirstMatchReplaced(TableOrder[k], ppTrace[k], ppTrace[k + 1])
    /\ IF wordObj.opts.capFirst
       THEN FirstUppercased(result, ppTrace[Len(ppTrace)])
       ELSE result = ppTrace[Len(ppTrace)]

C10_Witness ==
  /\ pc = "processed"
  /\ wordObj.opts.capFirst
  /\ Cardinality({ k \in 1..8 : ppTrace[k] # ppTrace[k + 1] }) >= 3

====
